---- MODULE Spec2Model ----
(***************************************************************************)
(* The per-connection session state machine of the PISIGHT backend:       *)
(* io.on("connection") and the five socket handlers of the server file,   *)
(* with the inference adapter AiProcessing of aiAgent.controller.js.      *)
(*                                                                         *)
(* Node runs the handlers on one thread.  A handler runs without           *)
(* interruption up to its next await; every await of a remote call is a    *)
(* suspension point where other events of the process are handled.  Each   *)
(* action below is one such uninterrupted run: an inbound event's handler  *)
(* up to its first suspension, or the resumption of a suspended handler    *)
(* up to its next suspension or its end.                                   *)
(***************************************************************************)
EXTENDS Integers, Sequences, FiniteSets, TLC

\* ---------------------------------------------------------------- bounds
\* Pipeline-triggering events (audio_full, text_message) handled per connection.
MaxReq == 2
\* Chunks of one image: a chunk that would fill the assembly buffer to
\* MaxChunks is a terminal one.
MaxChunks == 2

\* ---------------------------------------------------------------- inputs
ConnIds == {"s1"}
ByteVals == {1, 2}
Messages == {"What is 2+2?"}
VendorErrors == {"bad audio", "too short"}

BSeq(S, n) == UNION {[1..k -> S] : k \in 0..n}

\* The payload of an image_chunk event.  ok = FALSE is a payload Buffer.from
\* rejects (data.chunk undefined, a number, ...): it throws a TypeError.
ChunkData ==
  [ok : {TRUE}, chunk : BSeq(ByteVals, 1), isLast : BOOLEAN]
    \cup [ok : {FALSE}, chunk : {<<>>}, isLast : BOOLEAN]

\* The payload of an audio_full event; ok = FALSE as above.
AudioData == [ok : BOOLEAN]

\* ------------------------------------------------------------- the state
VARIABLES
  sessionData,  \* socket id -> [image, imageChunks, isProcessing], one per connection made
  connected,    \* the socket ids whose connection is open
  pipes,        \* the suspended audio_full / text_message handlers
  log,          \* history: socket id -> one record per trigger event handled
  arrived,      \* history: socket id -> bytes of the chunks buffered since the last terminal chunk
  cleared,      \* history: socket id -> the inbound event handled last on it was clear_image
  last,         \* history: the step taken last
  emitted,      \* history: what the last step passed to socket.emit, in order
  sentOn        \* history: the sockets the last step's events were sent on

vars == <<sessionData, connected, pipes, log, arrived, cleared, last, emitted,
          sentOn>>

\* sessionData.image is null or a Buffer; a Buffer of length 0 is not null.
NoImage == [null |-> TRUE, bytes |-> <<>>]
Img(b) == [null |-> FALSE, bytes |-> b]

FreshSession == [image |-> NoImage, imageChunks |-> <<>>, isProcessing |-> FALSE]

\* ---------------------------------------------------------------- events
DateNow == "Date.now()"
BusyMessage == "Still processing previous request"
TypeErrorMessage == "TypeError"

ErrorEvent(type, message) == [ev |-> "error", type |-> type, message |-> message]
BusyError == ErrorEvent("busy", BusyMessage)
AiResponse(text, audio) ==
  [ev |-> "ai_response", text |-> text, audio |-> audio, timestamp |-> DateNow]
ImageReceived(size) == [ev |-> "image_received", size |-> size, timestamp |-> DateNow]
ImageCleared == [ev |-> "image_cleared"]

\* ------------------------------------------------------------ image upload
\* The list's buffers put together last first.
RECURSIVE BufferConcatReversed(_)
BufferConcatReversed(list) ==
  IF list = <<>> THEN <<>> ELSE BufferConcatReversed(Tail(list)) \o Head(list)

\* Buffer.concat(list): the bytes of the list's buffers, in list order.
RECURSIVE BufferConcat(_)
BufferConcat(list) ==
  IF list = <<>> THEN <<>> ELSE Head(list) \o BufferConcat(Tail(list))

\* The handler behind the admission test of the trigger events.
ImageChunkWhenIdle(sd, data) ==
  IF sd.isProcessing THEN [sd |-> sd, out |-> <<BusyError>>]
  ELSE IF ~data.ok
    THEN [sd |-> sd, out |-> <<ErrorEvent("image_upload", TypeErrorMessage)>>]
    ELSE LET pushed == Append(sd.imageChunks, data.chunk)
             image == BufferConcat(pushed)
         IN  IF data.isLast
               THEN [sd |-> [sd EXCEPT !.image = Img(image), !.imageChunks = <<>>],
                     out |-> <<ImageReceived(Len(image))>>]
               ELSE [sd |-> [sd EXCEPT !.imageChunks = pushed], out |-> <<>>]

\* socket.on("image_chunk"): the session after the event and the events emitted.
ImageChunk(sd, data) ==
  IF ~data.ok
    THEN [sd |-> sd, out |-> <<ErrorEvent("image_upload", TypeErrorMessage)>>]
    ELSE LET pushed == Append(sd.imageChunks, data.chunk)
             image == BufferConcat(pushed)
         IN  IF data.isLast
               THEN [sd |-> [sd EXCEPT !.image = Img(image), !.imageChunks = <<>>],
                     out |-> <<ImageReceived(Len(image))>>]
               ELSE [sd |-> [sd EXCEPT !.imageChunks = pushed], out |-> <<>>]

\* The acknowledgment without the assignment.
ClearImageKeeps(sd) == [sd |-> sd, out |-> <<ImageCleared>>]

\* clear_image written like disconnect: the assembly buffer is emptied too.
ClearImageAndBuffer(sd) ==
  [sd |-> [sd EXCEPT !.image = NoImage, !.imageChunks = <<>>], out |-> <<ImageCleared>>]

\* socket.on("clear_image")
ClearImage(sd) == [sd |-> [sd EXCEPT !.image = NoImage], out |-> <<ImageCleared>>]

\* socket.on("disconnect")
Disconnect(sd) == [sd EXCEPT !.image = NoImage, !.imageChunks = <<>>]

\* ------------------------------------------------------------------ base64
Base64Alphabet ==
  <<"A","B","C","D","E","F","G","H","I","J","K","L","M","N","O","P",
    "Q","R","S","T","U","V","W","X","Y","Z","a","b","c","d","e","f",
    "g","h","i","j","k","l","m","n","o","p","q","r","s","t","u","v",
    "w","x","y","z","0","1","2","3","4","5","6","7","8","9","+","/">>

B64(i) == Base64Alphabet[i + 1]
B64Index(ch) == (CHOOSE i \in 1..64 : Base64Alphabet[i] = ch) - 1

\* buffer.toString("base64"): three bytes to four characters, "=" padding.
RECURSIVE Base64Encode(_)
Base64Encode(b) ==
  IF Len(b) = 0 THEN <<>>
  ELSE IF Len(b) = 1 THEN
    <<B64(b[1] \div 4), B64((b[1] % 4) * 16), "=", "=">>
  ELSE IF Len(b) = 2 THEN
    <<B64(b[1] \div 4), B64((b[1] % 4) * 16 + b[2] \div 16),
      B64((b[2] % 16) * 4), "=">>
  ELSE
    <<B64(b[1] \div 4), B64((b[1] % 4) * 16 + b[2] \div 16),
      B64((b[2] % 16) * 4 + b[3] \div 64), B64(b[3] % 64)>>
      \o Base64Encode(SubSeq(b, 4, Len(b)))

\* Buffer.from(data, "base64") of a padded base64 string.
RECURSIVE Base64Decode(_)
Base64Decode(s) ==
  IF Len(s) < 4 THEN <<>>
  ELSE LET a == B64Index(s[1])
           b == B64Index(s[2])
           rest == Base64Decode(SubSeq(s, 5, Len(s)))
       IN  IF s[3] = "=" THEN <<a * 4 + b \div 16>>
           ELSE IF s[4] = "=" THEN
             <<a * 4 + b \div 16, (b % 16) * 16 + B64Index(s[3]) \div 4>>
           ELSE
             <<a * 4 + b \div 16, (b % 16) * 16 + B64Index(s[3]) \div 4,
               (B64Index(s[3]) % 4) * 64 + B64Index(s[4])>> \o rest

\* ------------------------------------------------------- inference adapter
TextTurn(message) ==
  [role |-> "user", content |-> <<[type |-> "text", text |-> message]>>]

ImageTurn(bytes) ==
  [role |-> "user",
   content |-> <<[type |-> "text", text |-> "Describe this image in detail"],
                 [type |-> "image",
                  image |-> <<"data:image/png;base64,">> \o Base64Encode(bytes)]>>]

\* The test `if (img)` left out: the image turn is always added.
AiMessagesAlwaysImage(img, message) ==
  <<TextTurn(message), ImageTurn(img.bytes)>>

\* AiProcessing, up to its await: the messages it passes to generateText.
\* `if (img)`: null is falsy, a Buffer (also an empty one) is truthy.
AiMessages(img, message) ==
  IF img.null THEN <<TextTurn(message)>>
  ELSE <<TextTurn(message), ImageTurn(img.bytes)>>

\* array.join(sep) of an array of strings
RECURSIVE Join(_, _)
Join(strs, sep) ==
  IF strs = <<>> THEN ""
  ELSE IF Len(strs) = 1 THEN strs[1]
  ELSE strs[1] \o sep \o Join(Tail(strs), sep)

\* The inner join called without a separator: join() puts "," between parts.
ResultTextDefaultJoin(response) ==
  Join([i \in 1..Len(response.steps) |->
          LET content == response.steps[i].content
          IN  Join([j \in 1..Len(content) |->
                      IF content[j].type = "text" THEN content[j].text ELSE ""],
                   ",")],
       "\n")

\* AiProcessing, after its await: the text it returns for generateText's response.
ResultText(response) ==
  Join([i \in 1..Len(response.steps) |->
          LET content == response.steps[i].content
          IN  Join([j \in 1..Len(content) |->
                      IF content[j].type = "text" THEN content[j].text ELSE ""],
                   "\n")],
       "\n")

\* What generateText may resolve to.
Responses ==
  {[steps |-> <<[content |-> <<[type |-> "text", text |-> "4."]>>]>>],
   [steps |-> <<[content |-> <<[type |-> "reasoning", text |-> "sum"],
                               [type |-> "text", text |-> "It is"]>>],
                [content |-> <<[type |-> "text", text |-> "4."]>>]>>]}

\* ------------------------------------------------------- synthesis adapter
\* getWaveBuffer's format: channels, rate, sampleWidth * 8.
WavChannels == 1
WavSampleRate == 24000
WavSampleWidth == 2

LE(n, bytes) == [i \in 1..bytes |-> (n \div (256 ^ (i - 1))) % 256]

\* The header wav.Writer puts before the samples, reduced to the format
\* fields getWaveBuffer sets: channels, sample rate, bit depth (little endian).
WavHeader == LE(WavChannels, 2) \o LE(WavSampleRate, 4) \o LE(WavSampleWidth * 8, 2)

\* getWaveBuffer(pcmData): the header, then the samples.
GetWaveBuffer(pcm) == WavHeader \o pcm

NoAudioMessage == "No audio data returned from Gemini API."

\* What generateContent may resolve to: inlineData.data, a base64 string, or none.
SynthResults ==
  {[data |-> <<>>], [data |-> <<Base64Encode(<<1, 2>>)>>]}

\* ----------------------------------------------------- transcription adapter
\* What transcripts.get may resolve to.  text is <<>> when the job has none.
PollResults ==
  [status : {"queued", "processing"}, text : {<<>>}, error : {""}]
    \cup [status : {"completed"}, text : {<<>>, <<"">>, <<"hello">>}, error : {""}]
    \cup [status : {"error"}, text : {<<>>}, error : VendorErrors]

\* completedTranscript.text || ""
Transcript(res) == IF res.text = <<>> THEN "" ELSE res.text[1]

\* -------------------------------------------------------------- admission
\* The admission test left out.
IsBusyNever(sd) == FALSE
IsBusy(sd) == sd.isProcessing
\* The flag not set on admission.
SetBusyMissing(sd) == sd
SetBusy(sd) == [sd EXCEPT !.isProcessing = TRUE]
\* No finally block.
FinallyMissing(sd) == sd
\* finally { sessionData.isProcessing = false; }
Finally(sd) == [sd EXCEPT !.isProcessing = FALSE]

\* The audio handler's catch block copied into the text handler as it is.
ErrorTypeCopied(kind) == "full_audio"
ErrorType(kind) == IF kind = "audio_full" THEN "full_audio" ELSE "text_processing"
\* catch (err) { socket.emit("error", { type, message: err.message }); }
Catch(kind, message) == ErrorEvent(ErrorType(kind), message)

\* socket.on("audio_full") up to its first await.  pc is where the handler is
\* afterwards: "rejected" and "done" have returned, "upload" is suspended.
AudioFull(sd, arg) ==
  IF IsBusy(sd)
    THEN [sd |-> sd, out |-> <<BusyError>>, pc |-> "rejected", call |-> <<>>]
  ELSE IF ~arg.ok
    THEN [sd |-> Finally(SetBusy(sd)), out |-> <<Catch("audio_full", TypeErrorMessage)>>,
          pc |-> "done", call |-> <<>>]
  ELSE [sd |-> SetBusy(sd), out |-> <<>>, pc |-> "upload", call |-> <<>>]

\* The rejection without its return: the handler emits "busy" and goes on.
TextMessageNoReturn(sd, message) ==
  [sd |-> SetBusy(sd), out |-> IF IsBusy(sd) THEN <<BusyError>> ELSE <<>>,
   pc |-> "infer", call |-> AiMessages(sd.image, message)]

\* socket.on("text_message") up to its first await, inside AiProcessing.
TextMessage(sd, message) ==
  IF IsBusy(sd)
    THEN [sd |-> sd, out |-> <<BusyError>>, pc |-> "rejected", call |-> <<>>]
  ELSE [sd |-> SetBusy(sd), out |-> <<>>, pc |-> "infer",
        call |-> AiMessages(sd.image, message)]

\* ---------------------------------------------------------------- history
InFlight(c) == {p \in pipes : p.sock = c}

\* A suspended handler: its socket, the trigger event it handles (the req-th
\* of the socket), where it is suspended, the adapter calls it has made
\* (consecutive polls of the job count once), aiResponseText and rawPcmBuffer;
\* while generateText is pending, the messages AiProcessing built for it;
\* and (history), until it builds them, whether the session held no image
\* when the event was admitted.
Pipe(c, req, kind, pc) ==
  [sock |-> c, req |-> req, kind |-> kind, pc |-> pc, stages |-> <<pc>>,
   text |-> "", pcm |-> <<>>, call |-> <<>>, noImage |-> TRUE]

AddStage(stages, s) ==
  IF s = "sleep" \/ (stages # <<>> /\ stages[Len(stages)] = s) THEN stages
  ELSE Append(stages, s)

IsTerminal(ev) == ev.ev = "ai_response" \/ (ev.ev = "error" /\ ev.type # "busy")
IsBusyError(ev) == ev.ev = "error" /\ ev.type = "busy"
CountTerminal(evs) == Cardinality({i \in 1..Len(evs) : IsTerminal(evs[i])})
CountBusy(evs) == Cardinality({i \in 1..Len(evs) : IsBusyError(evs[i])})

\* A response of generateText without steps.
NoResponse == [steps |-> <<>>]

\* The step taken last: its kind, socket and trigger event (req, 0 when it
\* has none), whether what it was handed was good (a payload Buffer.from
\* takes, a remote call that resolved to a usable result), the adapter calls
\* made so far for the trigger event and, when the step called generateText,
\* the messages passed; for a trigger event and for image_chunk, whether the
\* inbound event handled before it on the socket was clear_image; for
\* image_chunk, the payload; for a poll's return, the job's status, error and
\* text; for generateText's return, the response; for a trigger event and for
\* the steps of its handler up to the one that builds the messages, whether
\* the session held no image when the event was admitted.

Step(kind, c, req, ok) ==
  [kind |-> kind, sock |-> c, req |-> req, ok |-> ok, stages |-> <<>>,
   call |-> <<>>, afterClear |-> FALSE, chunk |-> <<>>, isLast |-> FALSE,
   status |-> "", error |-> "", text |-> <<>>, response |-> NoResponse,
   noImage |-> TRUE]

\* socket.emit(...) of a handler of socket c: the sockets the events out are
\* sent on. Every emit of the handlers is on the socket of their closure.
SocketEmit(c, out) == IF out = <<>> THEN {} ELSE {c}

\* ------------------------------------------------------------------ Init
Init ==
  /\ sessionData = [c \in {} |-> FreshSession]
  /\ connected = {}
  /\ pipes = {}
  /\ log = [c \in {} |-> <<>>]
  /\ arrived = [c \in {} |-> <<>>]
  /\ cleared = [c \in {} |-> FALSE]
  /\ last = Step("listen", "", 0, TRUE)
  /\ emitted = <<>>
  /\ sentOn = {}

\* ------------------------------------------------------- inbound events
\* io.on("connection"): a new socket with its own sessionData.
connection(c) ==
  /\ c \notin DOMAIN sessionData
  /\ sessionData' = sessionData @@ (c :> FreshSession)
  /\ connected' = connected \cup {c}
  /\ log' = log @@ (c :> <<>>)
  /\ arrived' = arrived @@ (c :> <<>>)
  /\ cleared' = cleared @@ (c :> FALSE)
  /\ last' = Step("connection", c, 0, TRUE)
  /\ emitted' = <<>>
  /\ sentOn' = SocketEmit(c, <<>>)
  /\ UNCHANGED pipes

\* A trigger event's handler has run to its first suspension or its return.
Trigger(c, kind, r, ok) ==
  LET req == Len(log[c]) + 1
      returned == r.pc \in {"rejected", "done"}
  IN  /\ sessionData' = [sessionData EXCEPT ![c] = r.sd]
      /\ emitted' = r.out
      /\ sentOn' = SocketEmit(c, r.out)
      /\ pipes' = IF returned THEN pipes
                  ELSE pipes \cup {[Pipe(c, req, kind, r.pc) EXCEPT
                                      !.call = r.call,
                                      !.noImage = IF r.call = <<>>
                                                    THEN sessionData[c].image.null
                                                    ELSE TRUE]}
      /\ log' = [log EXCEPT ![c] =
                   Append(@, [kind |-> kind,
                              admitted |-> r.pc # "rejected",
                              inflight |-> InFlight(c) # {},
                              terminal |-> CountTerminal(r.out),
                              busy |-> CountBusy(r.out),
                              done |-> returned])]
      /\ last' = [Step(kind, c, req, ok) EXCEPT
                    !.stages = IF returned THEN <<>> ELSE <<r.pc>>,
                    !.call = r.call, !.afterClear = cleared[c],
                    !.noImage = sessionData[c].image.null]
      /\ cleared' = [cleared EXCEPT ![c] = FALSE]
      /\ UNCHANGED <<connected, arrived>>

audio_full(c, arg) ==
  /\ c \in connected
  /\ Len(log[c]) < MaxReq
  /\ Trigger(c, "audio_full", AudioFull(sessionData[c], arg), arg.ok)

text_message(c, message) ==
  /\ c \in connected
  /\ Len(log[c]) < MaxReq
  /\ Trigger(c, "text_message", TextMessage(sessionData[c], message), TRUE)

\* The messages of a pending generateText call refer to the session's image
\* instead of holding a copy: reassembly shows in them.
image_chunk_shared_image(c, data) ==
  /\ c \in connected
  /\ data.isLast \/ ~data.ok \/ Len(sessionData[c].imageChunks) + 1 < MaxChunks
  /\ LET r == ImageChunk(sessionData[c], data)
     IN  /\ sessionData' = [sessionData EXCEPT ![c] = r.sd]
         /\ emitted' = r.out
         /\ sentOn' = SocketEmit(c, r.out)
         /\ pipes' = {IF p.sock = c /\ p.pc = "infer"
                        THEN [p EXCEPT !.call = AiMessages(r.sd.image, p.call[1].content[1].text)]
                        ELSE p : p \in pipes}
  /\ arrived' = [arrived EXCEPT ![c] =
                   IF ~data.ok THEN @
                   ELSE IF data.isLast THEN <<>> ELSE @ \o data.chunk]
  /\ last' = [Step("image_chunk", c, 0, data.ok) EXCEPT
                !.chunk = data.chunk, !.isLast = data.isLast,
                !.afterClear = cleared[c]]
  /\ cleared' = [cleared EXCEPT ![c] = FALSE]
  /\ UNCHANGED <<connected, log>>

image_chunk(c, data) ==
  /\ c \in connected
  /\ data.isLast \/ ~data.ok \/ Len(sessionData[c].imageChunks) + 1 < MaxChunks
  /\ LET r == ImageChunk(sessionData[c], data)
     IN  /\ sessionData' = [sessionData EXCEPT ![c] = r.sd]
         /\ emitted' = r.out
         /\ sentOn' = SocketEmit(c, r.out)
  /\ arrived' = [arrived EXCEPT ![c] =
                   IF ~data.ok THEN @
                   ELSE IF data.isLast THEN <<>> ELSE @ \o data.chunk]
  /\ last' = [Step("image_chunk", c, 0, data.ok) EXCEPT
                !.chunk = data.chunk, !.isLast = data.isLast,
                !.afterClear = cleared[c]]
  /\ cleared' = [cleared EXCEPT ![c] = FALSE]
  /\ UNCHANGED <<connected, pipes, log>>

clear_image(c) ==
  /\ c \in connected
  /\ LET r == ClearImage(sessionData[c])
     IN  /\ sessionData' = [sessionData EXCEPT ![c] = r.sd]
         /\ emitted' = r.out
         /\ sentOn' = SocketEmit(c, r.out)
  /\ last' = Step("clear_image", c, 0, TRUE)
  /\ cleared' = [cleared EXCEPT ![c] = TRUE]
  /\ UNCHANGED <<connected, pipes, log, arrived>>

\* The disconnect handler abandons the socket's suspended handler.
disconnect_cancels(c) ==
  /\ c \in connected
  /\ connected' = connected \ {c}
  /\ sessionData' = [sessionData EXCEPT ![c] = Disconnect(@)]
  /\ pipes' = pipes \ InFlight(c)
  /\ emitted' = <<>>
  /\ sentOn' = SocketEmit(c, <<>>)
  /\ last' = Step("disconnect", c, 0, TRUE)
  /\ cleared' = [cleared EXCEPT ![c] = FALSE]
  /\ arrived' = [arrived EXCEPT ![c] = <<>>]
  /\ UNCHANGED log

\* The transport closes the socket; no event of it is handled afterwards.
disconnect(c) ==
  /\ c \in connected
  /\ connected' = connected \ {c}
  /\ sessionData' = [sessionData EXCEPT ![c] = Disconnect(@)]
  /\ emitted' = <<>>
  /\ sentOn' = SocketEmit(c, <<>>)
  /\ last' = Step("disconnect", c, 0, TRUE)
  /\ cleared' = [cleared EXCEPT ![c] = FALSE]
  /\ arrived' = [arrived EXCEPT ![c] = <<>>]
  /\ UNCHANGED <<pipes, log>>

\* ---------------------------------------------------- pipeline resumptions
\* What a resumption tells the history: its kind, whether the awaited call
\* resolved to a usable result, the messages passed to generateText when it
\* calls it, a poll's status, error and text, and generateText's response.
Info(kind, ok) ==
  [kind |-> kind, ok |-> ok, call |-> <<>>, status |-> "", error |-> "",
   text |-> <<>>, response |-> NoResponse]

\* The suspended handler p goes on to its next await, where q is suspended.
Continue(p, q, info) ==
  LET stages == AddStage(p.stages, q.pc)
  IN  /\ pipes' = (pipes \ {p}) \cup {[q EXCEPT !.stages = stages]}
      /\ emitted' = <<>>
      /\ sentOn' = SocketEmit(p.sock, <<>>)
      /\ last' = [Step(info.kind, p.sock, p.req, info.ok) EXCEPT
                    !.stages = stages, !.call = info.call,
                    !.status = info.status, !.error = info.error,
                    !.text = info.text, !.response = info.response,
                    !.noImage = p.noImage]
      /\ UNCHANGED <<sessionData, connected, log, arrived, cleared>>

\* An await after the emit: the handler is suspended once more before its
\* finally block.
EndAwaitsAfterEmit(p, ev, info) ==
  /\ pipes' = (pipes \ {p}) \cup {[p EXCEPT !.pc = "finally"]}
  /\ log' = [log EXCEPT ![p.sock][p.req] =
               [@ EXCEPT !.terminal = @ + CountTerminal(<<ev>>)]]
  /\ emitted' = <<ev>>
  /\ sentOn' = SocketEmit(p.sock, <<ev>>)
  /\ last' = [Step(info.kind, p.sock, p.req, info.ok) EXCEPT
                !.stages = p.stages, !.status = info.status, !.error = info.error,
                !.text = info.text, !.response = info.response,
                !.noImage = p.noImage]
  /\ UNCHANGED <<sessionData, connected, arrived, cleared>>

\* One busy flag for the whole server: the finally block releases every
\* session.
EndSharedFlag(p, ev, info) ==
  /\ pipes' = pipes \ {p}
  /\ sessionData' = [c \in DOMAIN sessionData |-> Finally(sessionData[c])]
  /\ log' = [log EXCEPT ![p.sock][p.req] =
               [@ EXCEPT !.terminal = @ + CountTerminal(<<ev>>), !.done = TRUE]]
  /\ emitted' = <<ev>>
  /\ sentOn' = SocketEmit(p.sock, <<ev>>)
  /\ last' = [Step(info.kind, p.sock, p.req, info.ok) EXCEPT
                !.stages = p.stages, !.status = info.status, !.error = info.error,
                !.text = info.text, !.response = info.response,
                !.noImage = p.noImage]
  /\ UNCHANGED <<connected, arrived, cleared>>

\* The suspended handler p emits ev (its ai_response, or its catch block's
\* error) and runs its finally block, with no await in between.
End(p, ev, info) ==
  /\ pipes' = pipes \ {p}
  /\ sessionData' = [sessionData EXCEPT ![p.sock] = Finally(@)]
  /\ log' = [log EXCEPT ![p.sock][p.req] =
               [@ EXCEPT !.terminal = @ + CountTerminal(<<ev>>), !.done = TRUE]]
  /\ emitted' = <<ev>>
  /\ sentOn' = SocketEmit(p.sock, <<ev>>)
  /\ last' = [Step(info.kind, p.sock, p.req, info.ok) EXCEPT
                !.stages = p.stages, !.status = info.status, !.error = info.error,
                !.text = info.text, !.response = info.response,
                !.noImage = p.noImage]
  /\ UNCHANGED <<connected, arrived, cleared>>

\* await assemblyClient.files.upload(audioBuffer)
upload_return(p, ok) ==
  /\ p.pc = "upload"
  /\ IF ok THEN Continue(p, [p EXCEPT !.pc = "create"], Info("upload_return", ok))
     ELSE End(p, Catch(p.kind, "upload failed"), Info("upload_return", ok))

\* await assemblyClient.transcripts.create(...)
create_return(p, ok) ==
  /\ p.pc = "create"
  /\ IF ok THEN Continue(p, [p EXCEPT !.pc = "poll"], Info("create_return", ok))
     ELSE End(p, Catch(p.kind, "create failed"), Info("create_return", ok))

\* The loop's tests leave out the one for status "error": the job is polled on.
poll_return_no_error_test(p, ok, res) ==
  LET info == [Info("poll_return", res.status # "error") EXCEPT
                 !.status = res.status, !.error = res.error, !.text = res.text]
  IN  /\ p.pc = "poll"
      /\ IF ~ok THEN End(p, Catch(p.kind, "get failed"), Info("poll_return", ok))
         ELSE IF res.status = "completed" THEN
           LET call == AiMessages(sessionData[p.sock].image, Transcript(res))
           IN  Continue(p, [p EXCEPT !.pc = "infer", !.call = call, !.noImage = TRUE],
                        [info EXCEPT !.call = call])
         ELSE Continue(p, [p EXCEPT !.pc = "sleep"], info)

\* The image read once, where the handler starts: a session without an image
\* at admission sends none, whatever has arrived since.
poll_return_image_at_admission(p, ok, res) ==
  LET info == [Info("poll_return", res.status # "error") EXCEPT
                 !.status = res.status, !.error = res.error, !.text = res.text]
  IN  /\ p.pc = "poll"
      /\ IF ~ok THEN End(p, Catch(p.kind, "get failed"), Info("poll_return", ok))
         ELSE IF res.status = "completed" THEN
           LET image == IF p.noImage THEN NoImage ELSE sessionData[p.sock].image
               call == AiMessages(image, Transcript(res))
           IN  Continue(p, [p EXCEPT !.pc = "infer", !.call = call, !.noImage = TRUE],
                        [info EXCEPT !.call = call])
         ELSE IF res.status = "error" THEN End(p, Catch(p.kind, res.error), info)
         ELSE Continue(p, [p EXCEPT !.pc = "sleep"], info)

\* The loop's break on "completed" left out: the handler sleeps and polls on.
poll_return_no_break(p, ok, res) ==
  LET info == [Info("poll_return", res.status # "error") EXCEPT
                 !.status = res.status, !.error = res.error, !.text = res.text]
  IN  /\ p.pc = "poll"
      /\ IF ~ok THEN End(p, Catch(p.kind, "get failed"), Info("poll_return", ok))
         ELSE IF res.status = "error" THEN End(p, Catch(p.kind, res.error), info)
         ELSE Continue(p, [p EXCEPT !.pc = "sleep"], info)

\* await assemblyClient.transcripts.get(id), then the loop's tests; on
\* "completed" the handler goes on into AiProcessing with the session's image.
poll_return(p, ok, res) ==
  LET info == [Info("poll_return", res.status # "error") EXCEPT
                 !.status = res.status, !.error = res.error, !.text = res.text]
  IN  /\ p.pc = "poll"
      /\ IF ~ok THEN End(p, Catch(p.kind, "get failed"), Info("poll_return", ok))
         ELSE IF res.status = "completed" THEN
           LET call == AiMessages(sessionData[p.sock].image, Transcript(res))
           IN  Continue(p, [p EXCEPT !.pc = "infer", !.call = call, !.noImage = TRUE],
                        [info EXCEPT !.call = call])
         ELSE IF res.status = "error" THEN End(p, Catch(p.kind, res.error), info)
         ELSE Continue(p, [p EXCEPT !.pc = "sleep"], info)

\* The job's creation inside the loop: a new job after every sleep.
sleep_return_creates_job(p) ==
  /\ p.pc = "sleep"
  /\ Continue(p, [p EXCEPT !.pc = "create"], Info("sleep_return", TRUE))

\* await new Promise((r) => setTimeout(r, 3000)), then the next get
sleep_return(p) ==
  /\ p.pc = "sleep"
  /\ Continue(p, [p EXCEPT !.pc = "poll"], Info("sleep_return", TRUE))

\* await generateText(...) in AiProcessing, then textToAudio up to its await
infer_return(p, ok, response) ==
  /\ p.pc = "infer"
  /\ IF ok THEN Continue(p, [p EXCEPT !.pc = "synth", !.call = <<>>,
                                      !.text = ResultText(response)],
                         [Info("infer_return", ok) EXCEPT !.response = response])
     ELSE End(p, Catch(p.kind, "generateText failed"), Info("infer_return", ok))

\* await googleAI.models.generateContent(...) in textToAudio, then
\* getWaveBuffer up to the writer's end
synth_return(p, ok, res) ==
  /\ p.pc = "synth"
  /\ IF ~ok THEN End(p, Catch(p.kind, "generateContent failed"), Info("synth_return", ok))
     ELSE IF res.data = <<>>
       THEN End(p, Catch(p.kind, NoAudioMessage), Info("synth_return", FALSE))
     ELSE Continue(p, [p EXCEPT !.pc = "frame", !.pcm = Base64Decode(res.data[1])],
                   Info("synth_return", ok))

\* await getWaveBuffer(rawPcmBuffer) (and, with DEBUG_SAVE_AUDIO, await
\* saveWaveFile), then the handler's emit of ai_response
frame_return(p, ok) ==
  /\ p.pc = "frame"
  /\ IF ok THEN End(p, AiResponse(p.text, Base64Encode(GetWaveBuffer(p.pcm))),
                    Info("frame_return", ok))
     ELSE End(p, Catch(p.kind, "writer error"), Info("frame_return", ok))

\* ------------------------------------------------------------------ Next
Next ==
  \/ \E c \in ConnIds : connection(c)
  \/ \E c \in ConnIds, arg \in AudioData : audio_full(c, arg)
  \/ \E c \in ConnIds, message \in Messages : text_message(c, message)
  \/ \E c \in ConnIds, data \in ChunkData : image_chunk(c, data)
  \/ \E c \in ConnIds : clear_image(c)
  \/ \E c \in ConnIds : disconnect(c)
  \/ \E p \in pipes, ok \in BOOLEAN : upload_return(p, ok)
  \/ \E p \in pipes, ok \in BOOLEAN : create_return(p, ok)
  \/ \E p \in pipes, ok \in BOOLEAN, res \in PollResults : poll_return(p, ok, res)
  \/ \E p \in pipes : sleep_return(p)
  \/ \E p \in pipes, ok \in BOOLEAN, response \in Responses : infer_return(p, ok, response)
  \/ \E p \in pipes, ok \in BOOLEAN, res \in SynthResults : synth_return(p, ok, res)
  \/ \E p \in pipes, ok \in BOOLEAN : frame_return(p, ok)

Spec == Init /\ [][Next]_vars

\* ------------------------------------------------------------- fairness
\* A suspended handler of socket c is resumed: the call it awaits has
\* resolved or been rejected, or its timer has fired.
Resume(c) ==
  \E p \in InFlight(c) :
    \/ \E ok \in BOOLEAN : upload_return(p, ok)
    \/ \E ok \in BOOLEAN : create_return(p, ok)
    \/ \E ok \in BOOLEAN, res \in PollResults : poll_return(p, ok, res)
    \/ sleep_return(p)
    \/ \E ok \in BOOLEAN, response \in Responses : infer_return(p, ok, response)
    \/ \E ok \in BOOLEAN, res \in SynthResults : synth_return(p, ok, res)
    \/ \E ok \in BOOLEAN : frame_return(p, ok)

\* Every remote call returns or fails and every timer fires: a handler that
\* can be resumed is resumed in the end.  Nothing makes the job leave
\* "queued" / "processing".
SpecLive == Init /\ [][Next]_vars /\ \A c \in ConnIds : WF_vars(Resume(c))

\* ------------------------------------------------- generateText responses
\* AiProcessing's result over every response of up to MaxSteps steps of up to
\* MaxParts content parts each: a text_message is admitted and generateText
\* resolves.
MaxSteps == 2
MaxParts == 2

Parts ==
  {[type |-> "text", text |-> "a"], [type |-> "text", text |-> "b"],
   [type |-> "reasoning", text |-> "r"]}

ResponseSpace == [steps : BSeq([content : BSeq(Parts, MaxParts)], MaxSteps)]

NextText ==
  \/ \E c \in ConnIds : connection(c)
  \/ \E c \in ConnIds, message \in Messages : text_message(c, message)
  \/ \E p \in pipes :
       p.pc = "infer" /\ \E response \in ResponseSpace : infer_return(p, TRUE, response)

SpecText == Init /\ [][NextText]_vars

\* ------------------------------------------------------- two connections
\* The same handlers, registered for each of two connections. The sockets
\* send different image bytes, the trigger events of both count against
\* MaxReq together, and the remote calls resolve to one result of each kind.
ConnIdsTwo == {"s1", "s2"}

ByteOf(c) == IF c = "s1" THEN 1 ELSE 2

ChunkDataOf(c) == [ok : {TRUE}, chunk : {<<ByteOf(c)>>}, isLast : BOOLEAN]

TotalReq ==
  LET RECURSIVE Sum(_)
      Sum(S) == IF S = {} THEN 0
                ELSE LET c == CHOOSE x \in S : TRUE
                     IN  Len(log[c]) + Sum(S \ {c})
  IN  Sum(DOMAIN log)

PollResultsTwo ==
  {r \in PollResults : \/ r.status = "processing"
                       \/ r.status = "completed" /\ r.text = <<"hello">>
                       \/ r.status = "error" /\ r.error = "bad audio"}

ResponsesTwo == {r \in Responses : Len(r.steps) = 1}

SynthResultsTwo == {r \in SynthResults : r.data # <<>>}

NextTwo ==
  \/ \E c \in ConnIdsTwo : connection(c)
  \/ \E c \in ConnIdsTwo : TotalReq < MaxReq /\ audio_full(c, [ok |-> TRUE])
  \/ \E c \in ConnIdsTwo, message \in Messages :
       TotalReq < MaxReq /\ text_message(c, message)
  \/ \E c \in ConnIdsTwo : \E data \in ChunkDataOf(c) : image_chunk(c, data)
  \/ \E c \in ConnIdsTwo : clear_image(c)
  \/ \E c \in ConnIdsTwo : disconnect(c)
  \/ \E p \in pipes : upload_return(p, TRUE)
  \/ \E p \in pipes : create_return(p, TRUE)
  \/ \E p \in pipes, res \in PollResultsTwo : poll_return(p, TRUE, res)
  \/ \E p \in pipes : sleep_return(p)
  \/ \E p \in pipes, response \in ResponsesTwo : infer_return(p, TRUE, response)
  \/ \E p \in pipes, res \in SynthResultsTwo : synth_return(p, TRUE, res)
  \/ \E p \in pipes, ok \in BOOLEAN : frame_return(p, ok)

SpecTwo == Init /\ [][NextTwo]_vars

\* ================================================================ claims

\* C1: in every reachable state each session has at most one pipeline in
\* flight, and its isProcessing flag is true exactly while one is in flight.
C1_SingleFlight ==
  \A c \in DOMAIN sessionData :
    /\ Cardinality(InFlight(c)) <= 1
    /\ sessionData[c].isProcessing <=> (InFlight(c) # {})

\* A terminal image chunk has just been handled while a pipeline awaits synthesis.
C1_Witness ==
  \E p \in pipes :
    /\ p.pc = "synth"
    /\ last.kind = "image_chunk" /\ last.sock = p.sock /\ last.ok /\ last.isLast
    /\ sessionData[p.sock].isProcessing

\* C2: of two trigger events handled one after the other, the first while no
\* pipeline of the session is in flight and the second while the first's
\* pipeline is, the first is admitted and gets no "busy" and, once it has
\* ended, exactly one terminal event; the second is not admitted and gets
\* exactly one "busy" error and no terminal event.
C2_BackToBack ==
  \A c \in DOMAIN log : \A i \in 1..(Len(log[c]) - 1) :
    LET a == log[c][i]
        b == log[c][i + 1]
    IN  (~a.inflight /\ b.inflight) =>
          /\ a.admitted /\ a.busy = 0 /\ a.terminal = (IF a.done THEN 1 ELSE 0)
          /\ ~b.admitted /\ b.busy = 1 /\ b.terminal = 0 /\ b.done

\* An audio_full and a text_message back to back, the first one's pipeline ended.
C2_Witness ==
  \E c \in DOMAIN log :
    /\ Len(log[c]) = 2
    /\ ~log[c][1].inflight /\ log[c][2].inflight
    /\ log[c][1].kind # log[c][2].kind
    /\ log[c][1].done /\ log[c][1].terminal = 1

\* C3: a trigger event handled while isProcessing is set emits one "busy"
\* error and nothing else, leaves the session (image, assembly buffer, flag)
\* and the suspended handlers as they are and calls no adapter; and no
\* handler ever runs for a rejected event, nor is a terminal event emitted for it.
C3_Reject(c) ==
  (Len(log'[c]) = Len(log[c]) + 1 /\ sessionData[c].isProcessing) =>
    /\ emitted' = <<[ev |-> "error", type |-> "busy", message |-> BusyMessage]>>
    /\ sessionData'[c] = sessionData[c]
    /\ pipes' = pipes
    /\ last'.call = <<>> /\ last'.stages = <<>>

C3_NeverRuns ==
  \A c \in DOMAIN log : \A i \in 1..Len(log[c]) :
    log[c][i].busy > 0 =>
      /\ \A p \in pipes : ~(p.sock = c /\ p.req = i)
      /\ log[c][i].busy = 1 /\ log[c][i].terminal = 0 /\ log[c][i].done

C3_Rejection == [][\A c \in DOMAIN log : C3_Reject(c)]_vars /\ []C3_NeverRuns

\* The second trigger event was rejected and the pipeline then in flight has
\* ended since: nothing runs.
C3_Witness ==
  \E c \in DOMAIN log :
    /\ Len(log[c]) = 2
    /\ log[c][2].busy = 1
    /\ log[c][1].done /\ log[c][1].terminal = 1
    /\ last.req = 1 /\ last.sock = c
    /\ pipes = {}

\* C4: when the step taken last ended an admitted pipeline, by whatever
\* exit, isProcessing is false.
C4_Released ==
  (/\ last.req > 0
   /\ log[last.sock][last.req].admitted
   /\ log[last.sock][last.req].done)
    => ~sessionData[last.sock].isProcessing

\* A pipeline has just ended in its catch block, on a failed synthesis.
C4_Witness ==
  /\ last.kind = "synth_return" /\ ~last.ok
  /\ log[last.sock][last.req].done

\* C5: an admitted trigger event has got no terminal event while its
\* handler is suspended and exactly one once the handler has returned, and no
\* "busy"; the step that ends the pipeline emits that one event and nothing
\* else: the complete ai_response (text, audio, timestamp) when the last
\* stage, after all the others, came back good, and otherwise one error
\* typed "full_audio" for audio_full and "text_processing" for text_message.
C5_Ended ==
  /\ last.req > 0
  /\ log[last.sock][last.req].admitted
  /\ log[last.sock][last.req].done

C5_AllStages(kind) ==
  IF kind = "audio_full"
    THEN <<"upload", "create", "poll", "infer", "synth", "frame">>
    ELSE <<"infer", "synth", "frame">>

C5_OneTerminal ==
  /\ \A c \in DOMAIN log : \A i \in 1..Len(log[c]) :
       log[c][i].admitted =>
         /\ log[c][i].terminal = (IF log[c][i].done THEN 1 ELSE 0)
         /\ log[c][i].busy = 0
  /\ C5_Ended =>
       LET kind == log[last.sock][last.req].kind
       IN  /\ Len(emitted) = 1
           /\ IF last.ok /\ last.kind = "frame_return"
                THEN /\ emitted[1].ev = "ai_response"
                     /\ DOMAIN emitted[1] = {"ev", "text", "audio", "timestamp"}
                     /\ last.stages = C5_AllStages(kind)
                ELSE /\ emitted[1].ev = "error"
                     /\ DOMAIN emitted[1] = {"ev", "type", "message"}
                     /\ emitted[1].type = (IF kind = "audio_full" THEN "full_audio"
                                                                  ELSE "text_processing")

\* A text_message's pipeline has just ended on a failed inference.
C5_Witness ==
  /\ C5_Ended
  /\ last.kind = "infer_return" /\ ~last.ok
  /\ log[last.sock][last.req].kind = "text_message"
  /\ emitted[1].type = "text_processing"

\* C6: when a poll returns the job in status "error", the handler emits one
\* error of type "full_audio" whose message is the job's error and no
\* ai_response, has called neither inference nor synthesis, and isProcessing
\* is false afterwards.
C6_TranscriptError ==
  (last.kind = "poll_return" /\ last.status = "error") =>
    /\ emitted = <<[ev |-> "error", type |-> "full_audio", message |-> last.error]>>
    /\ last.stages = <<"upload", "create", "poll">>
    /\ log[last.sock][last.req].terminal = 1
    /\ log[last.sock][last.req].done
    /\ InFlight(last.sock) = {}
    /\ ~sessionData[last.sock].isProcessing

\* The job of the socket's second trigger event ended in error "too short".
C6_Witness ==
  /\ last.kind = "poll_return" /\ last.status = "error"
  /\ last.error = "too short"
  /\ last.req = 2

\* C7: a terminal chunk leaves as the session's image the bytes of the chunks
\* handled since the last terminal chunk (or the connection), in arrival
\* order, this chunk last, and leaves the assembly buffer empty, whatever
\* was handled in between.
C7_Step(c) ==
  (last'.kind = "image_chunk" /\ last'.sock = c /\ last'.ok /\ last'.isLast) =>
    /\ sessionData'[c].image = [null |-> FALSE, bytes |-> arrived[c] \o last'.chunk]
    /\ sessionData'[c].imageChunks = <<>>

C7_Reassembly == [][\A c \in DOMAIN arrived : C7_Step(c)]_vars

\* The image is the two chunks <<1>> and <<2>>, the second just handled,
\* with a pipeline in flight.
C7_Witness ==
  \E c \in DOMAIN sessionData :
    /\ last.kind = "image_chunk" /\ last.sock = c /\ last.ok /\ last.isLast
    /\ last.chunk = <<2>>
    /\ sessionData[c].image = [null |-> FALSE, bytes |-> <<1, 2>>]
    /\ sessionData[c].imageChunks = <<>>
    /\ InFlight(c) # {}

\* C8: an image_chunk step never emits "busy", leaves isProcessing and the
\* suspended handlers as they are, and what it does with a chunk does not
\* depend on isProcessing: a non-terminal chunk is appended to the assembly
\* buffer, a terminal one replaces the image, empties the buffer and emits
\* image_received with the image's length.
C8_Step(c) ==
  (last'.kind = "image_chunk" /\ last'.sock = c) =>
    /\ sessionData'[c].isProcessing = sessionData[c].isProcessing
    /\ pipes' = pipes
    /\ \A i \in 1..Len(emitted') :
         ~(emitted'[i].ev = "error" /\ emitted'[i].type = "busy")
    /\ last'.ok =>
         IF last'.isLast
           THEN /\ ~sessionData'[c].image.null
                /\ sessionData'[c].imageChunks = <<>>
                /\ Len(sessionData'[c].image.bytes) =
                     Len(arrived[c]) + Len(last'.chunk)
                /\ emitted' = <<[ev |-> "image_received",
                                 size |-> Len(sessionData'[c].image.bytes),
                                 timestamp |-> DateNow]>>
           ELSE /\ sessionData'[c].imageChunks =
                     Append(sessionData[c].imageChunks, last'.chunk)
                /\ sessionData'[c].image = sessionData[c].image
                /\ emitted' = <<>>

C8_ChunkWhileProcessing == [][\A c \in DOMAIN arrived : C8_Step(c)]_vars

\* A terminal chunk was handled, and acknowledged, while a pipeline awaits
\* the inference.
C8_Witness ==
  \E p \in pipes :
    /\ p.pc = "infer"
    /\ last.kind = "image_chunk" /\ last.sock = p.sock /\ last.ok /\ last.isLast
    /\ Len(emitted) = 1 /\ emitted[1].ev = "image_received" /\ emitted[1].size = 1
    /\ sessionData[p.sock].isProcessing

\* C9: a text_message admitted when the inbound event handled before it on
\* the socket was clear_image calls the inference with one turn, the
\* message's text, and no image turn.
C9_ClearThenText ==
  (/\ last.kind = "text_message"
   /\ last.afterClear
   /\ log[last.sock][last.req].admitted) =>
    /\ \E m \in Messages :
         last.call = <<[role |-> "user",
                        content |-> <<[type |-> "text", text |-> m]>>]>>
    /\ \E p \in pipes : p.sock = last.sock /\ p.req = last.req /\ p.pc = "infer"

\* The socket's second trigger event, a text_message, was admitted right
\* after a clear_image.
C9_Witness ==
  /\ last.kind = "text_message"
  /\ last.afterClear
  /\ last.req = 2
  /\ log[last.sock][last.req].admitted

\* C10: after a disconnect the session holds no image, its assembly buffer
\* is empty and isProcessing is not set.
C10_Discarded ==
  last.kind = "disconnect" =>
    /\ sessionData[last.sock].image.null
    /\ sessionData[last.sock].imageChunks = <<>>
    /\ ~sessionData[last.sock].isProcessing

\* C11: with two connections open, each has its own session: a step of a
\* handler of socket a leaves the image, the chunk buffer and the busy flag of
\* every other socket b as they were, as well as b's suspended handlers and
\* b's trigger history; the events it emits are sent on a only; and a trigger
\* event on b is rejected exactly when b's own busy flag is set, whatever the
\* flag of a.
C11_Others(a) ==
  \A b \in DOMAIN sessionData \ {a} :
    /\ sessionData'[b] = sessionData[b]
    /\ {q \in pipes' : q.sock = b} = InFlight(b)
    /\ log'[b] = log[b]
    /\ arrived'[b] = arrived[b]

C11_OwnFlag(b) ==
  Len(log'[b]) = Len(log[b]) + 1 =>
    /\ log'[b][Len(log'[b])].admitted = ~sessionData[b].isProcessing
    /\ log'[b][Len(log'[b])].busy = IF sessionData[b].isProcessing THEN 1 ELSE 0

C11_Step ==
  /\ C11_Others(last'.sock)
  /\ sentOn' \subseteq {last'.sock}
  /\ emitted' # <<>> => sentOn' = {last'.sock}
  /\ \A b \in DOMAIN log : C11_OwnFlag(b)

C11_Isolation == [][C11_Step]_vars

\* Both sockets hold an image of their own bytes, socket s1 has a pipeline in
\* flight, and socket s2's trigger event, handled meanwhile, was admitted.
C11_Witness ==
  /\ DOMAIN sessionData = ConnIdsTwo
  /\ sessionData["s1"].isProcessing /\ InFlight("s1") # {}
  /\ sessionData["s2"].isProcessing /\ InFlight("s2") # {}
  /\ last.sock = "s2" /\ last.kind \in {"audio_full", "text_message"}
  /\ log["s2"] # <<>> /\ log["s2"][1].admitted
  /\ sessionData["s1"].image = Img(<<1>>)
  /\ sessionData["s2"].image = Img(<<2, 2>>)

\* C12: when every remote call returns or fails and every timer fires, a busy
\* session whose transcription job does not stay "queued" / "processing"
\* forever becomes idle again, with one terminal event emitted for every
\* admitted trigger event; so a session stays busy for ever only with its
\* handler in the polling loop and the job never reaching "completed" or
\* "error".
C12_Busy(c) == c \in DOMAIN sessionData /\ sessionData[c].isProcessing

C12_Polling(c) == \E p \in InFlight(c) : p.pc \in {"poll", "sleep"}

C12_JobSettled(c) ==
  /\ last.sock = c /\ last.kind = "poll_return"
  /\ last.status \notin {"queued", "processing"}

C12_Answered(c) ==
  /\ c \in DOMAIN sessionData /\ ~sessionData[c].isProcessing
  /\ \A i \in 1..Len(log[c]) : log[c][i].admitted => log[c][i].terminal = 1

C12_Termination ==
  \A c \in ConnIds :
    ([]<>(~C12_Polling(c) \/ C12_JobSettled(c))) => (C12_Busy(c) ~> C12_Answered(c))

\* An audio_full pipeline whose job was polled, slept on and polled again
\* has emitted its ai_response and released the session.
C12_Witness ==
  /\ last.kind = "frame_return" /\ last.ok
  /\ C12_Answered(last.sock)
  /\ log[last.sock][last.req].kind = "audio_full"
  /\ Len(emitted) = 1 /\ emitted[1].ev = "ai_response"

\* C13: the messages a pipeline has passed to generateText hold the image as
\* it was at the call: while the call is pending, no step changes them, and
\* an image_chunk, clear_image or disconnect handled meanwhile leaves the
\* suspended handler and its messages as they are.
C13_SameCall ==
  \A p \in pipes, q \in pipes' :
    (q.sock = p.sock /\ q.req = p.req /\ p.pc = "infer" /\ q.pc = "infer")
      => q.call = p.call

C13_Step ==
  /\ C13_SameCall
  /\ last'.kind \in {"image_chunk", "clear_image", "disconnect"} =>
       \A p \in pipes : p.pc = "infer" => p \in pipes'

C13_ImageCaptured == [][C13_Step]_vars

\* The image in the messages of a call.
C13_Image(call) ==
  IF Len(call) = 1 THEN NoImage
  ELSE Img(Base64Decode(Tail(call[2].content[2].image)))

\* generateText is pending with an image that the session no longer holds:
\* it was replaced, cleared or dropped by the event handled last.
C13_Witness ==
  /\ last.kind \in {"image_chunk", "clear_image", "disconnect"}
  /\ \E p \in InFlight(last.sock) :
       /\ p.pc = "infer"
       /\ C13_Image(p.call) # NoImage
       /\ C13_Image(p.call) # sessionData[p.sock].image

\* C14: a text_message handled while the session is idle and holds no image
\* calls generateText with one turn, the user's text turn carrying the
\* message, and sets the busy flag; when generateText, the synthesis and the
\* framing have succeeded, the handler has called each once, emits one event,
\* an ai_response whose text is the text AiProcessing returned and whose audio
\* is the non-empty base64 string of the WAV header followed by the
\* synthesised samples, and the busy flag is false again.
C14_Admitted(c) ==
  (/\ Len(log'[c]) = Len(log[c]) + 1
   /\ last'.kind = "text_message" /\ last'.sock = c
   /\ ~sessionData[c].isProcessing
   /\ sessionData[c].image.null)
  => /\ \E m \in Messages :
          last'.call = <<[role |-> "user",
                          content |-> <<[type |-> "text", text |-> m]>>]>>
     /\ sessionData'[c].isProcessing
     /\ emitted' = <<>>
     /\ \E q \in pipes' : /\ q.sock = c /\ q.req = Len(log'[c])
                           /\ q.pc = "infer" /\ q.call = last'.call

C14_Answered(p) ==
  (/\ p.kind = "text_message"
   /\ last'.kind = "frame_return" /\ last'.ok
   /\ last'.sock = p.sock /\ last'.req = p.req)
  => /\ p.stages = <<"infer", "synth", "frame">>
     /\ Len(emitted') = 1
     /\ emitted'[1].ev = "ai_response"
     /\ emitted'[1].text = p.text
     /\ emitted'[1].audio # <<>>
     /\ Base64Decode(emitted'[1].audio) = WavHeader \o p.pcm
     /\ ~sessionData'[p.sock].isProcessing
     /\ log'[p.sock][p.req].terminal = 1

C14_TextOnly ==
  [][(\A c \in DOMAIN log : C14_Admitted(c)) /\ (\A p \in pipes : C14_Answered(p))]_vars

\* The first event of a socket that never received a chunk or a clear_image is
\* a text_message; its ai_response, with the text "4.", has been emitted.
C14_Witness ==
  /\ last.kind = "frame_return" /\ last.ok /\ last.req = 1
  /\ log[last.sock][1].kind = "text_message"
  /\ Len(log[last.sock]) = 1
  /\ last.sock \in connected /\ ~cleared[last.sock] /\ arrived[last.sock] = <<>>
  /\ Len(emitted) = 1 /\ emitted[1].ev = "ai_response" /\ emitted[1].text = "4."
  /\ sessionData[last.sock].image.null /\ sessionData[last.sock].imageChunks = <<>>
  /\ ~sessionData[last.sock].isProcessing

\* C15 (as claimed): AiProcessing's result is the texts of the response's
\* text parts, in order, put together with nothing in between.
RECURSIVE C15_Texts(_)
C15_Texts(parts) ==
  IF parts = <<>> THEN ""
  ELSE (IF Head(parts).type = "text" THEN Head(parts).text ELSE "")
         \o C15_Texts(Tail(parts))

RECURSIVE C15_AllParts(_)
C15_AllParts(steps) ==
  IF steps = <<>> THEN <<>> ELSE Head(steps).content \o C15_AllParts(Tail(steps))

C15_Concatenation ==
  (last.kind = "infer_return" /\ last.ok) =>
    \A p \in InFlight(last.sock) : p.text = C15_Texts(C15_AllParts(last.response.steps))

\* C15: AiProcessing's result is one line per content part, in order, the
\* lines separated by "\n": a text part's line is its text, a part of another
\* type gives an empty line, and so does a step without parts.  A response
\* without steps gives the empty string, and a response of one text part
\* gives that part's text.
RECURSIVE C15_Segments(_)
C15_Segments(steps) ==
  IF steps = <<>> THEN <<>>
  ELSE LET content == Head(steps).content
       IN  (IF content = <<>> THEN <<"">>
            ELSE [j \in 1..Len(content) |->
                    IF content[j].type = "text" THEN content[j].text ELSE ""])
             \o C15_Segments(Tail(steps))

RECURSIVE C15_Lines(_)
C15_Lines(segs) ==
  IF segs = <<>> THEN ""
  ELSE IF Len(segs) = 1 THEN segs[1]
  ELSE C15_Lines(SubSeq(segs, 1, Len(segs) - 1)) \o "\n" \o segs[Len(segs)]

C15_LinesJoined ==
  (last.kind = "infer_return" /\ last.ok) =>
    \A p \in InFlight(last.sock) :
      /\ p.text = C15_Lines(C15_Segments(last.response.steps))
      /\ last.response.steps = <<>> => p.text = ""
      /\ (Len(last.response.steps) = 1
            /\ Len(last.response.steps[1].content) = 1
            /\ last.response.steps[1].content[1].type = "text")
           => p.text = last.response.steps[1].content[1].text

\* generateText resolved to two steps, a reasoning part among their parts:
\* the result has the line breaks, and an empty line for the reasoning part.
C15_Witness ==
  /\ last.kind = "infer_return" /\ last.ok
  /\ Len(last.response.steps) = 2
  /\ \E i \in 1..2 : \E j \in 1..Len(last.response.steps[i].content) :
       last.response.steps[i].content[j].type # "text"
  /\ \E p \in InFlight(last.sock) :
       /\ p.pc = "synth"
       /\ p.text # C15_Texts(C15_AllParts(last.response.steps))

\* C16: the adapter calls a suspended handler has made are an initial part of
\* upload, create, poll, infer, synth, frame for audio_full and of infer,
\* synth, frame for text_message, each at most once (the polls of the job
\* counting as one), and the handler is suspended in the last of them; a
\* poll's return goes on to generateText exactly when the status is
\* "completed", passing the job's text, or "" when it has none; and an
\* ai_response is emitted only by the step that follows the framing, after
\* all of them.
C16_Order(kind) ==
  IF kind = "audio_full"
    THEN <<"upload", "create", "poll", "infer", "synth", "frame">>
    ELSE <<"infer", "synth", "frame">>

C16_InOrder(p) ==
  /\ p.stages # <<>>
  /\ Len(p.stages) <= Len(C16_Order(p.kind))
  /\ p.stages = SubSeq(C16_Order(p.kind), 1, Len(p.stages))
  /\ p.stages[Len(p.stages)] = (IF p.pc = "sleep" THEN "poll" ELSE p.pc)

C16_Sequence ==
  /\ \A p \in pipes : C16_InOrder(p)
  /\ last.kind = "poll_return" =>
       /\ (last.stages[Len(last.stages)] = "infer") = (last.ok /\ last.status = "completed")
       /\ (last.ok /\ last.status = "completed") =>
            last.call[1] = [role |-> "user",
                            content |-> <<[type |-> "text",
                                           text |-> IF last.text = <<>> THEN ""
                                                    ELSE last.text[1]]>>]
  /\ last.kind \in {"audio_full", "text_message"} /\ last.stages # <<>> =>
       last.stages = <<C16_Order(last.kind)[1]>>
  /\ \A i \in 1..Len(emitted) :
       emitted[i].ev = "ai_response" =>
         /\ last.kind = "frame_return"
         /\ last.stages = C16_Order(log[last.sock][last.req].kind)

\* The job of an audio_full has completed without a text: generateText is
\* called with the empty message, after upload, create and poll.
C16_Witness ==
  /\ last.kind = "poll_return" /\ last.status = "completed" /\ last.text = <<>>
  /\ last.stages = <<"upload", "create", "poll", "infer">>
  /\ last.call[1].content[1].text = ""
  /\ \E p \in InFlight(last.sock) : p.pc = "infer" /\ p.kind = "audio_full"

\* C17: an image_chunk, a clear_image, a disconnect or a rejected audio_full /
\* text_message leaves every suspended handler as it is, its session busy and
\* its trigger event without a terminal event so far; a suspended handler can
\* always be resumed, a resumption only adds to the calls it has made, and a
\* handler goes away only by its own step, which emits its one terminal event
\* and releases the busy flag.
C17_Inbound ==
  \/ last'.kind \in {"image_chunk", "clear_image", "disconnect"}
  \/ /\ last'.kind \in {"audio_full", "text_message"}
     /\ Len(log'[last'.sock]) = Len(log[last'.sock]) + 1
     /\ ~log'[last'.sock][Len(log'[last'.sock])].admitted

C17_Kept(p) ==
  /\ p \in pipes'
  /\ sessionData'[p.sock].isProcessing
  /\ log'[p.sock][p.req] = log[p.sock][p.req]
  /\ log'[p.sock][p.req].terminal = 0 /\ ~log'[p.sock][p.req].done

C17_Goes(p) ==
  \/ \E q \in pipes' :
       /\ q.sock = p.sock /\ q.req = p.req /\ q.kind = p.kind
       /\ Len(q.stages) >= Len(p.stages)
       /\ SubSeq(q.stages, 1, Len(p.stages)) = p.stages
  \/ /\ last'.sock = p.sock /\ last'.req = p.req
     /\ last'.kind \in {"upload_return", "create_return", "poll_return",
                        "infer_return", "synth_return", "frame_return"}
     /\ Len(emitted') = 1 /\ IsTerminal(emitted'[1])
     /\ log'[p.sock][p.req].terminal = 1 /\ log'[p.sock][p.req].done
     /\ ~sessionData'[p.sock].isProcessing

C17_Step ==
  \A p \in pipes :
    /\ C17_Inbound => C17_Kept(p)
    /\ C17_Goes(p)

C17_NoCancel ==
  /\ [][C17_Step]_vars
  /\ [](\A p \in pipes : ENABLED Resume(p.sock))

\* An admitted pipeline has emitted its ai_response after the socket's next
\* trigger event was rejected and the socket was disconnected.
C17_Witness ==
  /\ last.kind = "frame_return" /\ last.ok /\ last.req = 1
  /\ last.sock \notin connected
  /\ Len(log[last.sock]) = 2
  /\ ~log[last.sock][2].admitted
  /\ log[last.sock][1].terminal = 1
  /\ ~sessionData[last.sock].isProcessing

\* C18: the step that emits a pipeline's ai_response or error also releases
\* the busy flag: in no state has a trigger event's terminal event been
\* emitted while its handler is still suspended or its session still busy on
\* its account, and a trigger event handled when every admitted one before it
\* on the socket has had its terminal event is admitted, not rejected as busy.
C18_Released ==
  \A c \in DOMAIN log :
    /\ \A i \in 1..Len(log[c]) :
         log[c][i].terminal >= 1 =>
           /\ log[c][i].done
           /\ \A p \in InFlight(c) : p.req # i
    /\ sessionData[c].isProcessing =>
         \E i \in 1..Len(log[c]) : log[c][i].admitted /\ log[c][i].terminal = 0

C18_Emitting ==
  (last'.req > 0 /\ Len(emitted') = 1 /\ IsTerminal(emitted'[1])) =>
    /\ ~sessionData'[last'.sock].isProcessing
    /\ InFlight(last'.sock) \ pipes' = InFlight(last'.sock)
    /\ \A q \in pipes' : q.sock # last'.sock

C18_Next(c) ==
  (/\ Len(log'[c]) = Len(log[c]) + 1
   /\ \A i \in 1..Len(log[c]) : log[c][i].admitted => log[c][i].terminal = 1)
  => /\ log'[c][Len(log'[c])].admitted
     /\ log'[c][Len(log'[c])].busy = 0
     /\ \A i \in 1..Len(emitted') : ~IsBusyError(emitted'[i])

C18_EmitAndRelease ==
  /\ []C18_Released
  /\ [][C18_Emitting /\ \A c \in DOMAIN log : C18_Next(c)]_vars

\* A socket's second trigger event, handled by the step right after the one
\* that emitted the first one's terminal event, has been admitted.
C18_Witness ==
  /\ last.kind \in {"audio_full", "text_message"} /\ last.req = 2
  /\ log[last.sock][1].admitted /\ log[last.sock][1].terminal = 1
  /\ log[last.sock][2].admitted /\ ~log[last.sock][2].inflight
  /\ last.stages # <<>>
  /\ sessionData[last.sock].isProcessing

\* C19: clear_image sets the image to null and emits image_cleared, once, and
\* leaves the assembly buffer, the busy flag, the suspended handlers and the
\* trigger history as they are; so a terminal chunk handled right after a
\* clear_image makes the image of all chunks that arrived since the terminal
\* chunk before, those from before the clear_image included.
C19_Clear(c) ==
  (last'.kind = "clear_image" /\ last'.sock = c) =>
    /\ sessionData'[c].image.null
    /\ sessionData'[c].imageChunks = sessionData[c].imageChunks
    /\ sessionData'[c].isProcessing = sessionData[c].isProcessing
    /\ emitted' = <<[ev |-> "image_cleared"]>>
    /\ pipes' = pipes /\ log' = log /\ connected' = connected
    /\ arrived' = arrived

C19_NextImage(c) ==
  (/\ last'.kind = "image_chunk" /\ last'.sock = c
   /\ last'.ok /\ last'.isLast /\ cleared[c])
  => /\ sessionData'[c].image = Img(arrived[c] \o last'.chunk)
     /\ sessionData'[c].imageChunks = <<>>

C19_ClearKeepsBuffer ==
  [][\A c \in DOMAIN sessionData : C19_Clear(c) /\ C19_NextImage(c)]_vars

\* A chunk, then clear_image, then the terminal chunk: the image has both
\* chunks.
C19_Witness ==
  /\ last.kind = "image_chunk" /\ last.ok /\ last.isLast /\ last.afterClear
  /\ sessionData[last.sock].image = Img(<<1, 2>>)
  /\ last.chunk = <<2>>

\* C20: an audio_full handler builds no messages when it is admitted nor
\* while it uploads, creates the job and polls; when the poll returns
\* "completed", the messages it passes to generateText carry the image the
\* session holds then (none when it holds none), whatever it held at
\* admission.  A text_message handler passes the image the session holds when
\* the event is admitted.
C20_Sent(call) ==
  IF Len(call) = 1 THEN NoImage
  ELSE Img(Base64Decode(Tail(call[2].content[2].image)))

C20_ImageAtCompletion ==
  /\ \A p \in pipes : p.pc \in {"upload", "create", "poll", "sleep"} => p.call = <<>>
  /\ last.kind = "audio_full" => last.call = <<>>
  /\ (last.kind = "poll_return" /\ last.ok /\ last.status = "completed") =>
       /\ last.call # <<>>
       /\ C20_Sent(last.call) = sessionData[last.sock].image
       /\ \A p \in InFlight(last.sock) : p.call = last.call
  /\ (last.kind = "text_message" /\ last.stages # <<>>) =>
       /\ last.call # <<>>
       /\ C20_Sent(last.call) = sessionData[last.sock].image
       /\ last.noImage = sessionData[last.sock].image.null
       /\ \A p \in InFlight(last.sock) : p.call = last.call

\* An audio_full admitted by a session without an image: by the time its job
\* has completed an image has arrived, and it is in the messages.
C20_Witness ==
  /\ last.kind = "poll_return" /\ last.ok /\ last.status = "completed"
  /\ last.noImage
  /\ Len(last.call) = 2
  /\ C20_Sent(last.call) = Img(<<2, 1>>)

====
